---------------------------- MODULE Spec2Model ----------------------------
(***************************************************************************)
(* A model of deno_aliyun_sts: StsClient.assumeRole / StsClient.doRequest  *)
(* (src/sts_client.ts) and the helpers generateNonce and                   *)
(* currentDateAsISO8601 (src/unnamed/part_000).                            *)
(*                                                                         *)
(* A JavaScript string is a sequence of tokens.  A token is a one-character*)
(* TLA+ string, or an atom: a longer TLA+ string that stands for a run of  *)
(* characters the model never looks into (a hex digest, a fixed literal of *)
(* the source, an unpaired UTF-16 surrogate).  A Record<string, string> is *)
(* a sequence of <<key, value>> pairs in insertion order with pairwise     *)
(* different keys, which is the iteration order of Object.entries.         *)
(***************************************************************************)
EXTENDS Integers, Sequences, FiniteSets, TLC

VARIABLES
    now,      \* the system clock in milliseconds, as Date.now() reads it
    DEBUG,    \* the module constant DEBUG of sts_client.ts:8
    calls     \* one record per invocation slot

vars == <<now, DEBUG, calls>>

----------------------------------------------------------------------------
(* Bounds of the model *)

\* number of invocations of assumeRole that may overlap
NCalls == 2
\* the clock runs from 0 to MaxNow milliseconds
MaxNow == 1
\* largest number of entries of a caller-supplied header mapping
MaxHeaders == 2
\* largest number of entries of a query mapping
MaxQuery == 2

----------------------------------------------------------------------------
(* Characters and strings *)

NL == "\n"
\* an unpaired UTF-16 surrogate code unit
SURROGATE == "<U+D800>"

UPPER == <<"A","B","C","D","E","F","G","H","I","J","K","L","M",
           "N","O","P","Q","R","S","T","U","V","W","X","Y","Z">>
LOWER == <<"a","b","c","d","e","f","g","h","i","j","k","l","m",
           "n","o","p","q","r","s","t","u","v","w","x","y","z">>
DIGITS == <<"0","1","2","3","4","5","6","7","8","9">>
HEXDIGITS == <<"0","1","2","3","4","5","6","7","8","9","A","B","C","D","E","F">>

\* the printable ASCII characters, the character with code 31 + i at index i
\* (the backslash and the backtick are written as atoms)
ASCII == <<" ","!","\"","#","$","%","&","'","(",")","*","+",",","-",".","/">>
         \o DIGITS \o <<":",";","<","=",">","?","@">>
         \o UPPER \o <<"[","<backslash>","]","^","_","<backtick>">>
         \o LOWER \o <<"{","|","}","~">>

Range(s) == {s[i] : i \in 1..Len(s)}

IndexOf(c, s) == CHOOSE i \in 1..Len(s) : s[i] = c

\* the code point of a printable ASCII character
CodeOf == [c \in Range(ASCII) |-> 31 + IndexOf(c, ASCII)]
Code(c) == CodeOf[c]

\* the text of a string as one TLA+ string
\* (the two halves are flattened apart to keep the evaluation shallow)
RECURSIVE Flatten(_)
Flatten(s) ==
    IF Len(s) = 0 THEN ""
    ELSE IF Len(s) = 1 THEN s[1]
    ELSE Flatten(SubSeq(s, 1, Len(s) \div 2)) \o Flatten(SubSeq(s, (Len(s) \div 2) + 1, Len(s)))

RECURSIVE Join(_, _)
Join(parts, sep) ==
    IF parts = <<>> THEN <<>>
    ELSE IF Len(parts) = 1 THEN parts[1]
    ELSE parts[1] \o sep \o Join(Tail(parts), sep)

Map(f(_), s) == [i \in 1..Len(s) |-> f(s[i])]

RECURSIVE Filter(_, _)
Filter(p(_), s) ==
    IF s = <<>> THEN <<>>
    ELSE (IF p(Head(s)) THEN <<Head(s)>> ELSE <<>>) \o Filter(p, Tail(s))

\* String.prototype.toLowerCase on the characters of the model
UpperCase == Range(UPPER)
LowerOf == [c \in UpperCase |-> LOWER[IndexOf(c, UPPER)]]
LowerChar(c) == IF c \in UpperCase THEN LowerOf[c] ELSE c
toLowerCase(s) == [i \in 1..Len(s) |-> LowerChar(s[i])]

\* String.prototype.trim: white space is removed from both ends
RECURSIVE TrimStart(_)
TrimStart(s) == IF s # <<>> /\ Head(s) \in {" ", NL} THEN TrimStart(Tail(s)) ELSE s
RECURSIVE TrimEnd(_)
TrimEnd(s) ==
    IF s # <<>> /\ s[Len(s)] \in {" ", NL} THEN TrimEnd(SubSeq(s, 1, Len(s) - 1)) ELSE s
trim(s) == TrimEnd(TrimStart(s))

startsWith(s, p) == Len(s) >= Len(p) /\ SubSeq(s, 1, Len(p)) = p

\* encodeURIComponent throws URIError on an unpaired surrogate
Encodable(s) == SURROGATE \notin Range(s)

Unreserved == Range(UPPER) \cup Range(LOWER) \cup Range(DIGITS)
              \cup {"-", "_", ".", "!", "~", "*", "'", "(", ")"}

EncodeChar(c) ==
    IF c \in Unreserved THEN <<c>>
    ELSE <<"%", HEXDIGITS[(Code(c) \div 16) + 1], HEXDIGITS[(Code(c) % 16) + 1]>>

\* encodeURIComponent on an encodable string
RECURSIVE encodeURIComponent(_)
encodeURIComponent(s) ==
    IF Len(s) = 0 THEN <<>>
    ELSE IF Len(s) = 1 THEN EncodeChar(s[1])
    ELSE encodeURIComponent(SubSeq(s, 1, Len(s) \div 2))
         \o encodeURIComponent(SubSeq(s, (Len(s) \div 2) + 1, Len(s)))

\* (new TextEncoder()).encode: the text signed and sent is ASCII after
\* percent-encoding, one byte per character; an atom stands for its own bytes
Utf8(c) == <<c>>
RECURSIVE TextEncode(_)
TextEncode(s) ==
    IF Len(s) = 0 THEN <<>>
    ELSE IF Len(s) = 1 THEN Utf8(s[1])
    ELSE TextEncode(SubSeq(s, 1, Len(s) \div 2))
         \o TextEncode(SubSeq(s, (Len(s) \div 2) + 1, Len(s)))

\* encodeHex(await crypto.subtle.digest("SHA-256", bytes)): the digest is
\* written as the bytes digested between two atoms, so that different bytes
\* give different digests and a digest is no other text
Sha256Hex(bytes) == <<"sha256(">> \o bytes \o <<")sha256">>

\* hmac("sha256", key, msg, "utf8", "hex"): the message between two atoms,
\* the first of which names the key; the characters of the key are not part
\* of the value
HmacSha256Hex(key, msg) == <<"hmac[" \o Flatten(key) \o "](">> \o msg \o <<")hmac">>

----------------------------------------------------------------------------
(* String.prototype.localeCompare with no locale argument: the collation   *)
(* of the runtime's ICU root locale.  Characters are compared by primary   *)
(* weight first (white space, then punctuation with "_" before "-", then   *)
(* symbols, digits and letters, a letter's case ignored); strings equal in *)
(* every primary weight are compared by case, lower case first.            *)

COLLATION == <<" ", "_", "-", ",", ";", ":", "!", "?", ".", "'", "\"", "(", ")",
               "[", "]", "{", "}", "@", "*", "/", "<backslash>", "&", "#", "%", "<backtick>", "^",
               "+", "<", "=", ">", "|", "~", "$">> \o DIGITS \o LOWER

PrimaryOf == [c \in Range(COLLATION) |-> IndexOf(c, COLLATION)]
Primary(c) == PrimaryOf[LowerChar(c)]
Tertiary(c) == IF c \in UpperCase THEN 1 ELSE 0

\* -1, 0 or 1: the lexicographic comparison of s and t from index i on, by
\* the weight W of their characters
RECURSIVE CompareFrom(_, _, _, _)
CompareFrom(W(_), s, t, i) ==
    IF i > Len(s) /\ i > Len(t) THEN 0
    ELSE IF i > Len(s) THEN -1
    ELSE IF i > Len(t) THEN 1
    ELSE IF W(s[i]) < W(t[i]) THEN -1
    ELSE IF W(s[i]) > W(t[i]) THEN 1
    ELSE CompareFrom(W, s, t, i + 1)

localeCompare(s, t) ==
    LET p == CompareFrom(Primary, s, t, 1)
    IN  IF p # 0 THEN p ELSE CompareFrom(Tertiary, s, t, 1)

\* Array.prototype.sort((e1, e2) => e1[0].localeCompare(e2[0])): a stable
\* sort of <<key, value>> pairs by key
RECURSIVE InsertSorted(_, _)
InsertSorted(e, sorted) ==
    IF sorted = <<>> THEN <<e>>
    ELSE IF localeCompare(e[1], Head(sorted)[1]) < 0 THEN <<e>> \o sorted
    ELSE <<Head(sorted)>> \o InsertSorted(e, Tail(sorted))

RECURSIVE SortByKey(_)
SortByKey(entries) ==
    IF entries = <<>> THEN <<>>
    ELSE InsertSorted(entries[Len(entries)],
                      SortByKey(SubSeq(entries, 1, Len(entries) - 1)))

----------------------------------------------------------------------------
(* Objects used as mappings *)

HasKey(obj, k) == \E i \in 1..Len(obj) : obj[i][1] = k

\* obj[k] = v: an existing key keeps its place; a new key is added last
SetProp(obj, k, v) ==
    IF HasKey(obj, k)
    THEN [i \in 1..Len(obj) |-> IF obj[i][1] = k THEN <<k, v>> ELSE obj[i]]
    ELSE Append(obj, <<k, v>>)

\* Object.assign(target, source)
RECURSIVE ObjectAssign(_, _)
ObjectAssign(target, source) ==
    IF source = <<>> THEN target
    ELSE ObjectAssign(SetProp(target, Head(source)[1], Head(source)[2]), Tail(source))

----------------------------------------------------------------------------
(* The helpers of src/unnamed/part_000 *)

\* the decimal digits of a natural number, as `${n}` writes them
RECURSIVE Decimal(_)
Decimal(n) == IF n < 10 THEN <<DIGITS[n + 1]>>
              ELSE Decimal(n \div 10) \o <<DIGITS[(n % 10) + 1]>>

\* Date.prototype.toISOString of the instant ms: the date and time to the
\* second (an atom), ".", three digits of milliseconds, "Z"
ToISOString(ms) ==
    <<"1970-01-01T00:00:00+" \o Flatten(Decimal(ms \div 1000)) \o "s">> \o <<".">>
    \o <<DIGITS[((ms % 1000) \div 100) + 1], DIGITS[((ms % 100) \div 10) + 1],
         DIGITS[(ms % 10) + 1]>>
    \o <<"Z">>

currentDateAsISO8601(ms) ==
    LET s == ToISOString(ms) IN SubSeq(s, 1, Len(s) - 5) \o <<"Z">>

\* `${Date.now()}`
generateNonce(ms) == Decimal(ms)

----------------------------------------------------------------------------
(* The fields of the StsClient instance (sts_client.ts:171-191) *)

endpoint == <<"s","t","s",".","e">>
accessKeyId == <<"I","D","7">>
accessKeySecret == <<"K","E","Y","9">>

H_nonce == <<"x","-","a","c","s","-","s","i","g","n","a","t","u","r","e","-","n","o","n","c","e">>
H_date == <<"x","-","a","c","s","-","d","a","t","e">>
H_host == <<"h","o","s","t">>
H_sha == <<"x","-","a","c","s","-","c","o","n","t","e","n","t","-","s","h","a","2","5","6">>
H_action == <<"x","-","a","c","s","-","a","c","t","i","o","n">>
H_authorization == <<"A","u","t","h","o","r","i","z","a","t","i","o","n">>
H_contentLength == <<"C","o","n","t","e","n","t","-","L","e","n","g","t","h">>
H_contentType == <<"C","o","n","t","e","n","t","-","T","y","p","e">>
X_ACS == <<"x","-","a","c","s","-">>

defaultHeaders == <<
    <<<<"x","-","s","d","k","-","c","l","i","e","n","t">>, <<"deno/1.0.0">>>>,
    <<<<"x","-","a","c","s","-","v","e","r","s","i","o","n">>, <<"2015-04-01">>>>,
    <<<<"A","c","c","e","p","t">>, <<"application/json">>>> >>

ALGORITHM == "ACS3-HMAC-SHA256"
DefaultTimeoutMs == 10000

----------------------------------------------------------------------------
(* StsClient.doRequest up to the fetch call (sts_client.ts:199-296) *)

\* `${encodeURIComponent(k)}=${v === null || v === undefined ? "" : encodeURIComponent(v)}`
EncodePair(e) == encodeURIComponent(e[1]) \o <<"=">> \o encodeURIComponent(e[2])

EntriesEncodable(entries) ==
    \A i \in 1..Len(entries) : Encodable(entries[i][1]) /\ Encodable(entries[i][2])

CanonicalQueryString(query) == Join(Map(EncodePair, SortByKey(query)), <<"&">>)

\* a payload is [isNull, entries]
PayloadString(payload) ==
    IF payload.isNull THEN <<>> ELSE Join(Map(EncodePair, payload.entries), <<"&">>)

\* Object.assign({nonce, date, host}, this.defaultHeaders, headers)
InitialHeaders(nonce, timeString, headers) ==
    ObjectAssign(ObjectAssign(<< <<H_nonce, nonce>>, <<H_date, timeString>>,
                                 <<H_host, endpoint>> >>,
                              defaultHeaders),
                 headers)

LowerTrim(e) == <<toLowerCase(e[1]), trim(e[2])>>
IsSigned(e) == e[1] = H_host \/ startsWith(e[1], X_ACS)

\* every header takes part
CanonicalHeadersUnfiltered(allHeaders) == SortByKey(Map(LowerTrim, allHeaders))

CanonicalHeaders(allHeaders) == SortByKey(Filter(IsSigned, Map(LowerTrim, allHeaders)))

HeaderLine(e) == e[1] \o <<":">> \o e[2]
HeaderName(e) == e[1]
CanonicalHeaderString(canonicalHeaders) == Join(Map(HeaderLine, canonicalHeaders), <<NL>>)
CanonicalHeaderNameString(canonicalHeaders) == Join(Map(HeaderName, canonicalHeaders), <<";">>)

\* every field is followed by a newline, the payload hash too
CanonicalRequestTrailing(method, uri, cqs, chs, names, hash) ==
    method \o <<NL>> \o uri \o <<NL>> \o cqs \o <<NL>> \o chs \o <<NL>> \o <<NL>>
    \o names \o <<NL>> \o hash \o <<NL>>

\* `${method}\n${uri}\n${canonicalQueryString}\n${canonicalHeaderString}\n\n${canonicalHeaderNameString}\n${payloadHashString}`
CanonicalRequest(method, uri, cqs, chs, names, hash) ==
    method \o <<NL>> \o uri \o <<NL>> \o cqs \o <<NL>> \o chs \o <<NL>> \o <<NL>>
    \o names \o <<NL>> \o hash

String2Sign(canonicalRequestHashString) == <<ALGORITHM>> \o <<NL>> \o canonicalRequestHashString

\* the secret is written where the access key ID belongs
AuthorizationHeaderLeaky(names, sigString) ==
    <<ALGORITHM>> \o <<" ">> \o <<"Credential=">> \o accessKeySecret
    \o <<",SignedHeaders=">> \o names \o <<",Signature=">> \o sigString

\* `ACS3-HMAC-SHA256 Credential=${this.accessKeyId},SignedHeaders=${canonicalHeaderNameString},Signature=${sigString}`
AuthorizationHeader(names, sigString) ==
    <<ALGORITHM>> \o <<" ">> \o <<"Credential=">> \o accessKeyId
    \o <<",SignedHeaders=">> \o names \o <<",Signature=">> \o sigString

FullUrl(uri, cqs) ==
    <<"https://">> \o endpoint \o uri \o (IF Len(cqs) > 0 THEN <<"?">> ELSE <<>>) \o cqs

\* Object.assign({timeoutMs: 10000}, options).timeoutMs; options is
\* [given, timeoutMs], given being FALSE when the caller passes none
TimeoutMs(options) == IF options.given THEN options.timeoutMs ELSE DefaultTimeoutMs

\* AbortSignal.timeout converts its argument to an unsigned long long with
\* the range enforced: a negative number is a TypeError
TimeoutAccepted(ms) == ms >= 0

\* log(msg) writes msg when DEBUG is set and nothing otherwise
Log(debug, lines) == IF debug THEN lines ELSE <<>>

LogHeader(e) == <<"> Header ">> \o e[1] \o <<":">> \o e[2]

\* the values doRequest computes before it calls fetch, for the clock
\* reading ms; every field is evaluated only when it is read
Prepare(method, uri, headers, query, payload, options, ms) ==
    LET timeString == currentDateAsISO8601(ms)
        nonce == generateNonce(ms)
        cqs == CanonicalQueryString(query)
        payloadString == PayloadString(payload)
        payloadBytes == TextEncode(payloadString)
        payloadHashString == Sha256Hex(payloadBytes)
        signedSet == SetProp(InitialHeaders(nonce, timeString, headers),
                             H_sha, payloadHashString)
        canonicalHeaders == CanonicalHeaders(signedSet)
        chs == CanonicalHeaderString(canonicalHeaders)
        names == CanonicalHeaderNameString(canonicalHeaders)
        canonicalRequest == CanonicalRequest(method, uri, cqs, chs, names, payloadHashString)
        canonicalRequestHashString == Sha256Hex(TextEncode(canonicalRequest))
        string2sign == String2Sign(canonicalRequestHashString)
        sigString == HmacSha256Hex(accessKeySecret, string2sign)
        authorizationHeader == AuthorizationHeader(names, sigString)
        withAuth == SetProp(signedSet, H_authorization, authorizationHeader)
        withLength == IF Len(payloadString) > 0
                      THEN SetProp(withAuth, H_contentLength, Decimal(Len(payloadBytes)))
                      ELSE withAuth
        allHeaders == SetProp(withLength, H_contentType,
                              <<"application/x-www-form-urlencoded">>)
        fullUrl == FullUrl(uri, cqs)
    IN  [ nonce |-> nonce,
          timeString |-> timeString,
          signedSet |-> signedSet,
          canonicalQueryString |-> cqs,
          payloadString |-> payloadString,
          payloadHashString |-> payloadHashString,
          canonicalHeaders |-> canonicalHeaders,
          canonicalHeaderString |-> chs,
          canonicalHeaderNameString |-> names,
          canonicalRequest |-> canonicalRequest,
          string2sign |-> string2sign,
          sigString |-> sigString,
          authorizationHeader |-> authorizationHeader,
          allHeaders |-> allHeaders,
          fullUrl |-> fullUrl,
          timeoutMs |-> TimeoutMs(options),
          hasBody |-> Len(payloadString) > 0,
          body |-> IF Len(payloadString) > 0 THEN payloadBytes ELSE <<>>,
          canonicalRequestHashString |-> canonicalRequestHashString ]

\* the lines doRequest hands to log() before it calls fetch
\* (sts_client.ts:244-281)
RequestLines(method, p) ==
    << <<"\n---- begin of canoical request ----">>,
       p.canonicalRequest,
       <<"---- end of canoical request ----\n">>,
       <<"canonical request hash string: ">> \o p.canonicalRequestHashString,
       <<"\n---- begin of string to sign ----">>,
       p.string2sign,
       <<"---- endof of string to sign ----\n">>,
       <<"Hmac-SHA256 signature result: ">> \o p.sigString,
       <<"authorization header: ">> \o p.authorizationHeader,
       <<"full url: ">> \o p.fullUrl,
       <<"> ">> \o method \o <<" ">> \o p.fullUrl >>
    \o Map(LogHeader, p.allHeaders)

\* encodeURIComponent throws on a key or value of the query or the payload
ThrowsURIError(query, payload) ==
    \/ ~EntriesEncodable(query)
    \/ ~payload.isNull /\ ~EntriesEncodable(payload.entries)

----------------------------------------------------------------------------
(* What a call settles with *)

UNDEF == "undefined"

NoResult == [present |-> FALSE, requestId |-> UNDEF, assumedRoleId |-> UNDEF, arn |-> UNDEF,
             securityToken |-> UNDEF, accessKeyId |-> UNDEF, accessKeySecret |-> UNDEF,
             expiration |-> UNDEF]

\* an exception: its class, its name property and the ClientError fields
Exception(class, name, message, requestId, hostId, code, recommend) ==
    [class |-> class, name |-> name, message |-> message, requestId |-> requestId,
     hostId |-> hostId, code |-> code, recommend |-> recommend]

NoError == Exception("none", UNDEF, UNDEF, UNDEF, UNDEF, UNDEF, UNDEF)

\* new ClientError(...): the class does not set name, which stays "Error"
ClientError(message, requestId, hostId, code, recommend) ==
    Exception("ClientError", "Error", message, requestId, hostId, code, recommend)

\* ClientError.fromHttpError
fromHttpError(message, status) ==
    ClientError(message, UNDEF, UNDEF, Flatten(Decimal(status)), UNDEF)

PlainError(class, name, message) == Exception(class, name, message, UNDEF, UNDEF, UNDEF, UNDEF)

\* the rejection of an aborted fetch: the reason of AbortSignal.timeout
TimeoutReason == PlainError("DOMException", "TimeoutError", "Signal timed out.")

\* every exception is thrown on as it is
CatchRethrow(e) == e

\* catch (e) of doRequest
Catch(e) ==
    IF e.name = "TimeoutError" THEN PlainError("Error", "Error", "request timeout") ELSE e

Returned(r) == [kind |-> "result", error |-> NoError, result |-> r]
Thrown(e) == [kind |-> "throw", error |-> e, result |-> NoResult]
NoOutcome == [kind |-> "none", error |-> NoError, result |-> NoResult]

----------------------------------------------------------------------------
(* Response bodies *)

NoUser == [present |-> FALSE, AssumedRoleId |-> UNDEF, Arn |-> UNDEF]
NoCredentials == [present |-> FALSE, SecurityToken |-> UNDEF, AccessKeyId |-> UNDEF,
                  AccessKeySecret |-> UNDEF, Expiration |-> UNDEF]

\* no body has been read
NoBody == [read |-> FALSE, json |-> FALSE, RequestId |-> UNDEF, HostId |-> UNDEF,
           Code |-> UNDEF, Message |-> UNDEF, Recommend |-> UNDEF,
           AssumedRoleUser |-> NoUser, Credentials |-> NoCredentials]

\* the JSON of a successful AssumeRole
BodyAssumeRole ==
    [NoBody EXCEPT !.read = TRUE, !.json = TRUE, !.RequestId = "request-1",
        !.AssumedRoleUser = [present |-> TRUE, AssumedRoleId |-> "role-id:session",
                             Arn |-> "acs:ram::1:assumed-role"],
        !.Credentials = [present |-> TRUE, SecurityToken |-> "token",
                         AccessKeyId |-> "STS.id", AccessKeySecret |-> "sts-secret",
                         Expiration |-> "2018-01-01T13:00:00Z"]]

\* the JSON error envelope
BodyError ==
    [NoBody EXCEPT !.read = TRUE, !.json = TRUE, !.RequestId = "request-2",
        !.HostId = "sts.e", !.Code = "NoPermission", !.Message = "not authorized",
        !.Recommend = "https://recommend"]

\* a body that is not JSON
BodyNotJson == [NoBody EXCEPT !.read = TRUE]

Bodies == {BodyAssumeRole, BodyError, BodyNotJson}

\* the statuses a fetch that follows redirects can resolve with
Statuses == {200, 300, 403, 500}

----------------------------------------------------------------------------
(* The state of one invocation *)

NoArgs == [method |-> <<>>, uri |-> <<>>, headers |-> <<>>, query |-> <<>>,
           payload |-> [isNull |-> TRUE, entries |-> <<>>],
           options |-> [given |-> FALSE, timeoutMs |-> 0]]

\* what fetch was called with: the URL and the RequestInit
NoRequest == [dispatched |-> FALSE, url |-> <<>>, method |-> <<>>, headers |-> <<>>,
              hasBody |-> FALSE, body |-> <<>>, timeoutMs |-> 0]

IdleCall ==
    [ pc |-> "idle",          \* idle, fetching, reading, done
      args |-> NoArgs,        \* the arguments of doRequest
      signed |-> FALSE,       \* doRequest has computed the signature
      nonce |-> <<>>,
      canonicalQueryString |-> <<>>,
      canonicalHeaders |-> <<>>,
      canonicalHeaderString |-> <<>>,
      canonicalHeaderNameString |-> <<>>,
      payloadHashString |-> <<>>,
      canonicalRequest |-> <<>>,
      authorizationHeader |-> <<>>,
      fetches |-> 0,          \* the number of calls of fetch
      sent |-> NoRequest,
      status |-> 0,           \* the status of the response, 0 before it
      body |-> NoBody,        \* the body response.json() has read
      aborted |-> FALSE,      \* the signal of AbortSignal.timeout has fired
      outcome |-> NoOutcome,
      logged |-> <<>> ]       \* the lines log() has written

\* the call after the lines 199-281 of doRequest
Signed(c, args, p, debug) ==
    [c EXCEPT !.args = args, !.signed = TRUE, !.nonce = p.nonce,
              !.canonicalQueryString = p.canonicalQueryString,
              !.canonicalHeaders = p.canonicalHeaders,
              !.canonicalHeaderString = p.canonicalHeaderString,
              !.canonicalHeaderNameString = p.canonicalHeaderNameString,
              !.payloadHashString = p.payloadHashString,
              !.canonicalRequest = p.canonicalRequest,
              !.authorizationHeader = p.authorizationHeader,
              !.logged = Log(debug, RequestLines(args.method, p))]

\* fetch(fullUrl, requestInit), sts_client.ts:287-299
Fetch(c, p) ==
    [c EXCEPT !.pc = "fetching", !.fetches = @ + 1,
              !.sent = [dispatched |-> TRUE, url |-> p.fullUrl, method |-> c.args.method,
                        headers |-> p.allHeaders, hasBody |-> p.hasBody, body |-> p.body,
                        timeoutMs |-> p.timeoutMs]]

Settle(c, outcome) == [c EXCEPT !.pc = "done", !.outcome = outcome]

\* doRequest from its first line to the await of fetch
DoRequest(c, method, uri, headers, query, payload, options, ms, debug) ==
    LET args == [method |-> method, uri |-> uri, headers |-> headers, query |-> query,
                 payload |-> payload, options |-> options]
        p == Prepare(method, uri, headers, query, payload, options, ms)
    IN  IF ThrowsURIError(query, payload)
        THEN Settle([c EXCEPT !.args = args],
                    Thrown(PlainError("URIError", "URIError", "URI malformed")))
        ELSE IF ~TimeoutAccepted(p.timeoutMs)
        THEN Settle(Signed(c, args, p, debug),
                    Thrown(PlainError("TypeError", "TypeError", "Value is outside the range")))
        ELSE Fetch(Signed(c, args, p, debug), p)

\* a 5xx response starts the request again
OnStatusRetry(c, status, debug) ==
    IF status >= 500
    THEN [c EXCEPT !.fetches = @ + 1, !.status = 0]
    ELSE [c EXCEPT !.pc = "reading", !.status = status]

\* the response has arrived: sts_client.ts:299-310, to the await of
\* response.json()
OnStatus(c, status, debug) ==
    LET notOk == Log(debug, << <<"< response is NOT OK: ">> \o Decimal(status) >>)
    IN  IF status >= 500
        THEN Settle([c EXCEPT !.status = status, !.logged = @ \o notOk],
                    Thrown(Catch(fromHttpError("response status code error", status))))
        ELSE IF status >= 400
        THEN [c EXCEPT !.pc = "reading", !.status = status, !.logged = @ \o notOk]
        ELSE [c EXCEPT !.pc = "reading", !.status = status]

\* response.json() has settled: sts_client.ts:308-325
OnBody(c, body) ==
    Settle([c EXCEPT !.body = body],
        IF ~body.json
        THEN Thrown(Catch(PlainError("SyntaxError", "SyntaxError", "Unexpected token")))
        ELSE IF c.status >= 400
        THEN Thrown(Catch(ClientError(body.Message, body.RequestId, body.HostId,
                                      body.Code, body.Recommend)))
        ELSE IF ~body.AssumedRoleUser.present \/ ~body.Credentials.present
        THEN Thrown(Catch(PlainError("TypeError", "TypeError",
                                     "Cannot read properties of undefined")))
        ELSE Returned([present |-> TRUE,
                       requestId |-> body.RequestId,
                       assumedRoleId |-> body.AssumedRoleUser.AssumedRoleId,
                       arn |-> body.AssumedRoleUser.Arn,
                       securityToken |-> body.Credentials.SecurityToken,
                       accessKeyId |-> body.Credentials.AccessKeyId,
                       accessKeySecret |-> body.Credentials.AccessKeySecret,
                       expiration |-> body.Credentials.Expiration]))

\* the timeout signal fires while fetch or response.json() is awaited
OnAbort(c) == Settle([c EXCEPT !.aborted = TRUE], Thrown(Catch(TimeoutReason)))

\* fetch rejects with a network error
OnNetworkError(c) ==
    Settle(c, Thrown(Catch(PlainError("TypeError", "TypeError", "error sending request"))))

----------------------------------------------------------------------------
(* StsClient.assumeRole (sts_client.ts:335-355) *)

\* JSON.stringify of a policy with one statement
JSONStringify(policy) ==
    <<"{","\"","V","e","r","s","i","o","n","\"",":","\"">> \o policy.Version \o <<"\"",",","\"","S","t","a","t","e","m","e","n","t","\"",":","[","{","\"","E","f","f","e","c","t","\"",":","\"">> \o policy.Effect
    \o <<"\"",",","\"","A","c","t","i","o","n","\"",":","\"">> \o policy.Action \o <<"\"",",","\"","R","e","s","o","u","r","c","e","\"",":","\"">> \o policy.Resource \o <<"\"","}","]","}">>

NoPolicy == [isNull |-> TRUE, Version |-> <<>>, Effect |-> <<>>, Action |-> <<>>,
             Resource |-> <<>>]
OssPolicy == [isNull |-> FALSE, Version |-> <<"1">>, Effect |-> <<"A","l","l","o","w">>,
              Action |-> <<"o","s","s",":","*">>, Resource |-> <<"a","c","s",":","o","s","s",":","*">>]

AssumeRolePayload(config) ==
    [isNull |-> FALSE,
     entries |->
        << <<<<"D","u","r","a","t","i","o","n","S","e","c","o","n","d","s">>, Decimal(config.durationSeconds)>>,
           <<<<"R","o","l","e","A","r","n">>, config.roleArn>>,
           <<<<"R","o","l","e","S","e","s","s","i","o","n","N","a","m","e">>, config.roleSessionName>> >>
        \o (IF config.policy.isNull THEN <<>>
            ELSE << <<<<"P","o","l","i","c","y">>, JSONStringify(config.policy)>> >>)
        \o (IF config.externalId = <<>> THEN <<>>
            ELSE << <<<<"E","x","t","e","r","n","a","l","I","d">>, config.externalId>> >>)]

AssumeRoleHeaders == << <<H_action, <<"A","s","s","u","m","e","R","o","l","e">>>> >>

RoleArn == <<"a","c","s",":","r","a","m",":",":","1",":","r","o","l","e","/","r">>

\* AssumeRoleRequest values: the default duration, with and without a policy
\* and an external ID, and a session name that holds an unpaired surrogate
PlainConfig == [durationSeconds |-> 3600, roleArn |-> RoleArn, roleSessionName |-> <<"s","d","k">>,
                policy |-> NoPolicy, externalId |-> <<>>]
PolicyConfig == [PlainConfig EXCEPT !.policy = OssPolicy, !.externalId = <<"e","x">>]
SurrogateConfig == [PlainConfig EXCEPT !.roleSessionName = <<"s", SURROGATE>>]

\* RequestOptions values: none, a timeout, a negative timeout
NoOptions == [given |-> FALSE, timeoutMs |-> 0]
WithTimeout(ms) == [given |-> TRUE, timeoutMs |-> ms]

\* the calls of assumeRole the model makes: <<config, options>>
AssumeRoleInputs ==
    { <<PlainConfig, NoOptions>>,
      <<PolicyConfig, WithTimeout(3000)>>,
      <<SurrogateConfig, NoOptions>>,
      <<PlainConfig, WithTimeout(-1)>> }

POST == <<"P","O","S","T">>
ROOT == <<"/">>

----------------------------------------------------------------------------
(* Actions *)

Calls == 1..NCalls

\* client.assumeRole(config, options) runs to its first await of the network
AssumeRole(i, config, options) ==
    /\ calls[i].pc = "idle"
    /\ calls' = [calls EXCEPT ![i] =
                    DoRequest(@, POST, ROOT, AssumeRoleHeaders, <<>>,
                              AssumeRolePayload(config), options, now, DEBUG)]
    /\ UNCHANGED <<now, DEBUG>>

\* the server's response head arrives
Respond(i, status) ==
    /\ calls[i].pc = "fetching"
    /\ calls' = [calls EXCEPT ![i] = OnStatus(@, status, DEBUG)]
    /\ UNCHANGED <<now, DEBUG>>

\* the response body has been read and parsed
BodyArrives(i, body) ==
    /\ calls[i].pc = "reading"
    /\ calls' = [calls EXCEPT ![i] = OnBody(@, body)]
    /\ UNCHANGED <<now, DEBUG>>

\* the timer of AbortSignal.timeout fires before the call has settled
Timeout(i) ==
    /\ calls[i].pc \in {"fetching", "reading"}
    /\ calls' = [calls EXCEPT ![i] = OnAbort(@)]
    /\ UNCHANGED <<now, DEBUG>>

\* the connection fails
NetworkError(i) ==
    /\ calls[i].pc = "fetching"
    /\ calls' = [calls EXCEPT ![i] = OnNetworkError(@)]
    /\ UNCHANGED <<now, DEBUG>>

\* a millisecond passes
Tick ==
    /\ now < MaxNow
    /\ now' = now + 1
    /\ UNCHANGED <<DEBUG, calls>>

Init ==
    /\ now = 0
    /\ DEBUG \in BOOLEAN
    /\ calls = [i \in Calls |-> IdleCall]

Next ==
    \/ \E i \in Calls, in \in AssumeRoleInputs : AssumeRole(i, in[1], in[2])
    \/ \E i \in Calls, status \in Statuses : Respond(i, status)
    \/ \E i \in Calls, body \in Bodies : BodyArrives(i, body)
    \/ \E i \in Calls : Timeout(i)
    \/ \E i \in Calls : NetworkError(i)
    \/ Tick

Spec == Init /\ [][Next]_vars

\* the runtime fires the timer of every signal it has armed
LiveSpec == Spec /\ \A i \in Calls : WF_vars(Timeout(i))

----------------------------------------------------------------------------
(* doRequest on its own: one invocation with any method, header mapping,   *)
(* query mapping and payload                                               *)

\* header entries a caller may pass: names in several cases, values with
\* surrounding white space, names the signature covers and names it does not
HeaderPool ==
    { <<<<"H","o","s","t">>, <<"x">>>>,
      <<<<"X","-","A","c","s","-","D","a","t","e">>, <<"t">>>>,
      <<<<"U","n","r","e","l","a","t","e","d">>, <<" ", "y", " ">>>>,
      <<<<"x","-","a","c","s","-","m","e","t","a">>, <<" ", "v", " ">>>>,
      <<<<"X","-","A","C","S","-","M","E","T","A">>, <<"w">>>>,
      <<<<"x","-","a","c","s","-","c","o","n","t","e","n","t","-","s","h","a","2","5","6">>, <<"b","o","g","u","s">>>>,
      <<<<"X","-","A","c","s","-","C","o","n","t","e","n","t","-","S","h","a","2","5","6">>, <<"b","o","g","u","s">>>> }

\* query entries: keys in both cases, an empty value, a value to be escaped
QueryPool ==
    { <<<<"b">>, <<"2">>>>,
      <<<<"a">>, <<"1">>>>,
      <<<<"B">>, <<"x", " ", "&">>>>,
      <<<<"k">>, <<>>>> }

\* the mappings of at most n entries of pool, in every insertion order
Mappings(pool, n) ==
    UNION { { m \in [1..k -> pool] : \A i, j \in 1..k : i # j => m[i][1] # m[j][1] }
            : k \in 0..n }

HeaderMappings == Mappings(HeaderPool, MaxHeaders)
QueryMappings == Mappings(QueryPool, MaxQuery)

Methods == {POST, <<"G","E","T">>}
Payloads == { [isNull |-> TRUE, entries |-> <<>>],
              [isNull |-> FALSE, entries |-> << <<<<"A">>, <<"1", " ", "2">>>> >>] }

\* an invocation of doRequest is about to be made with any of the arguments;
\* DEBUG, which decides only what log() writes, is unset
CanonInit ==
    /\ now = 0
    /\ DEBUG = FALSE
    /\ \E method \in Methods, headers \in HeaderMappings, query \in QueryMappings,
          payload \in Payloads :
            calls = [i \in Calls |->
                        IF i = 1
                        THEN [IdleCall EXCEPT !.args =
                                [method |-> method, uri |-> ROOT, headers |-> headers,
                                 query |-> query, payload |-> payload,
                                 options |-> NoOptions]]
                        ELSE IdleCall]

\* this.doRequest(method, uri, headers, query, payload, options) runs to the
\* await of fetch
DoRequestCall ==
    /\ calls[1].pc = "idle"
    /\ calls' = [calls EXCEPT ![1] =
                    DoRequest(@, @.args.method, @.args.uri, @.args.headers, @.args.query,
                              @.args.payload, @.args.options, now, DEBUG)]
    /\ UNCHANGED <<now, DEBUG>>

CanonNext == DoRequestCall

CanonSpec == CanonInit /\ [][CanonNext]_vars

----------------------------------------------------------------------------
(* The request as fetch puts it on the wire: new Headers(record) takes the *)
(* names without regard to case and combines the values given under one    *)
(* name, in the order of the record, with ", " (sts_client.ts:287-299)     *)

WireHas(headers, name) ==
    \E i \in 1..Len(headers) : toLowerCase(headers[i][1]) = name

WireValue(headers, name) ==
    LET same(e) == toLowerCase(e[1]) = name
        value(e) == e[2]
    IN  Join(Map(value, Filter(same, headers)), <<",", " ">>)

----------------------------------------------------------------------------
(* Operators of the properties *)

Contains(s, sub) ==
    \E k \in 0..(Len(s) - Len(sub)) : SubSeq(s, k + 1, k + Len(sub)) = sub

\* the sequences with the entries of s in every order
Perms(s) == { [i \in 1..Len(s) |-> s[f[i]]] : f \in Permutations(1..Len(s)) }

\* the parts of s between the separators sep
SplitSet(s, sep) ==
    LET cuts == {0, Len(s) + 1} \cup {i \in 1..Len(s) : s[i] = sep}
    IN  { SubSeq(s, x[1] + 1, x[2] - 1) :
            x \in { y \in cuts \X cuts :
                        y[1] < y[2] /\ ~\E m \in cuts : y[1] < m /\ m < y[2] } }

\* the SignedHeaders part of an Authorization value
SignedHeadersOf(auth) ==
    SubSeq(auth, IndexOf(",SignedHeaders=", auth) + 1, IndexOf(",Signature=", auth) - 1)

\* the comparison of two strings by the code points of their characters
CodeCompare(s, t) == CompareFrom(Code, s, t, 1)

WhiteSpace == {" ", NL}
Trimmed(v) == v = <<>> \/ (v[1] \notin WhiteSpace /\ v[Len(v)] \notin WhiteSpace)

\* the header is one the signature is to cover
Selected(e) == toLowerCase(e[1]) = H_host \/ startsWith(toLowerCase(e[1]), X_ACS)

ConfiguredTimeout(c) ==
    IF c.args.options.given THEN c.args.options.timeoutMs ELSE DefaultTimeoutMs

----------------------------------------------------------------------------
(* Properties *)

(* C1: for every response doRequest receives, the status class alone       *)
(* decides the outcome: no status outside 2xx yields a result; a 2xx       *)
(* response with the AssumeRole JSON returns the result built from it; a   *)
(* 4xx response with a JSON error body throws a ClientError carrying its   *)
(* Message, RequestId, HostId, Code and Recommend; a 5xx response throws a *)
(* ClientError whose code is the status and whose other fields are         *)
(* undefined, the body unread.                                             *)
C1_StatusDecidesOutcome ==
    \A i \in Calls :
        LET c == calls[i]
            e == c.outcome.error
        IN  (c.pc = "done" /\ c.status # 0 /\ ~c.aborted) =>
                /\ c.outcome.kind = "result" => c.status \in 200..299
                /\ (c.status \in 200..299 /\ c.body = BodyAssumeRole) =>
                        /\ c.outcome.kind = "result"
                        /\ c.outcome.result.requestId = c.body.RequestId
                        /\ c.outcome.result.arn = c.body.AssumedRoleUser.Arn
                        /\ c.outcome.result.securityToken = c.body.Credentials.SecurityToken
                /\ (c.status \in 400..499 /\ c.body.json /\ c.body.Message # UNDEF) =>
                        /\ c.outcome.kind = "throw" /\ e.class = "ClientError"
                        /\ e.message = c.body.Message /\ e.requestId = c.body.RequestId
                        /\ e.hostId = c.body.HostId /\ e.code = c.body.Code
                        /\ e.recommend = c.body.Recommend
                /\ c.status >= 500 =>
                        /\ c.outcome.kind = "throw" /\ e.class = "ClientError"
                        /\ e.code = Flatten(Decimal(c.status))
                        /\ e.requestId = UNDEF /\ e.hostId = UNDEF /\ e.recommend = UNDEF
                        /\ ~c.body.read

(* C2, as stated: every call of assumeRole calls fetch exactly once over   *)
(* its lifetime; no call completes without having called it.               *)
C2_ExactlyOneFetch ==
    \A i \in Calls :
        /\ calls[i].fetches <= 1
        /\ calls[i].pc = "done" => calls[i].fetches = 1

(* C2, amended: a call of assumeRole calls fetch at most once, whatever    *)
(* the outcome (4xx, 5xx, timeout, network error); it has called fetch     *)
(* exactly once while it awaits the network and when it has completed,     *)
(* unless it threw before it reached fetch: a URIError of                  *)
(* encodeURIComponent or a TypeError of AbortSignal.timeout.               *)
C2_AtMostOneFetch ==
    \A i \in Calls :
        LET c == calls[i]
        IN  /\ c.fetches <= 1
            /\ c.pc \in {"fetching", "reading"} => c.fetches = 1
            /\ c.pc = "done" =>
                    IF \/ ThrowsURIError(c.args.query, c.args.payload)
                       \/ ~TimeoutAccepted(ConfiguredTimeout(c))
                    THEN /\ c.fetches = 0 /\ ~c.sent.dispatched
                         /\ c.outcome.kind = "throw"
                         /\ c.outcome.error.class \in {"URIError", "TypeError"}
                    ELSE c.fetches = 1 /\ c.sent.dispatched

\* a call has failed with a 5xx status after its one fetch
C2_Witness ==
    \E i \in Calls : calls[i].pc = "done" /\ calls[i].status >= 500 /\ calls[i].fetches = 1

(* C3: every call of assumeRole eventually completes; when the timeout     *)
(* (options.timeoutMs, 10000 ms when omitted) passes before the call has   *)
(* settled, the request is aborted and the call fails with an Error whose  *)
(* message is "request timeout", which is no ClientError, and no result is *)
(* returned.                                                               *)
C3_TimeoutCompletes ==
    /\ [](\A i \in Calls :
            LET c == calls[i]
            IN  /\ c.sent.dispatched => c.sent.timeoutMs = ConfiguredTimeout(c)
                /\ c.aborted =>
                    /\ c.pc = "done" /\ c.outcome.kind = "throw"
                    /\ c.outcome.error.class = "Error"
                    /\ c.outcome.error.message = "request timeout"
                    /\ ~c.outcome.result.present
                /\ (c.outcome.error.class = "ClientError") => ~c.aborted)
    /\ \A i \in Calls : (calls[i].pc # "idle") ~> (calls[i].pc = "done")

\* a call made without options has been aborted by its timeout
C3_Witness ==
    \E i \in Calls : /\ calls[i].aborted /\ calls[i].pc = "done"
                     /\ ~calls[i].args.options.given
                     /\ calls[i].sent.timeoutMs = DefaultTimeoutMs

(* C4: for fixed method, path, header mapping, query mapping, body, time,  *)
(* nonce and secret, doRequest gives the same canonical request and the    *)
(* same Authorization value whatever the insertion order of the entries of *)
(* the header and query mappings, keys that differ only in case included.  *)
C4_OrderIndependent ==
    LET c == calls[1]
    IN  c.signed =>
            \A headers \in Perms(c.args.headers), query \in Perms(c.args.query) :
                LET p == Prepare(c.args.method, c.args.uri, headers, query,
                                 c.args.payload, c.args.options, now)
                IN  /\ p.canonicalRequest = c.canonicalRequest
                    /\ p.authorizationHeader = c.authorizationHeader

(* C5: the access key secret appears in no URL, header, body or log line   *)
(* of any request of any sequence of assumeRole calls, with DEBUG set or   *)
(* not.                                                                    *)
C5_SecretNeverEmitted ==
    \A i \in Calls :
        LET c == calls[i]
        IN  /\ ~Contains(c.sent.url, accessKeySecret)
            /\ ~Contains(c.sent.body, accessKeySecret)
            /\ \A k \in 1..Len(c.sent.headers) :
                    /\ ~Contains(c.sent.headers[k][1], accessKeySecret)
                    /\ ~Contains(c.sent.headers[k][2], accessKeySecret)
            /\ \A k \in 1..Len(c.logged) : ~Contains(c.logged[k], accessKeySecret)

\* a request has been signed and sent and its lines logged
C5_Witness ==
    \E i \in Calls : /\ calls[i].sent.dispatched /\ DEBUG /\ Len(calls[i].logged) > 0
                     /\ WireHas(calls[i].sent.headers, toLowerCase(H_authorization))

(* C6: every request doRequest sends carries host, x-acs-date,             *)
(* x-acs-signature-nonce, x-acs-content-sha256 and Authorization; the      *)
(* x-acs-content-sha256 value is the hex SHA-256 of the body bytes sent,   *)
(* also when the caller passes a content-hash header; SignedHeaders lists  *)
(* host, x-acs-date, x-acs-signature-nonce and x-acs-content-sha256.       *)
C6_RequiredHeaders ==
    LET c == calls[1]
        signedNames == SplitSet(SignedHeadersOf(WireValue(c.sent.headers,
                                                 toLowerCase(H_authorization))), ";")
    IN  c.sent.dispatched =>
            /\ \A name \in {H_host, H_date, H_nonce, H_sha, toLowerCase(H_authorization)} :
                    WireHas(c.sent.headers, name)
            /\ WireValue(c.sent.headers, H_sha) = Sha256Hex(c.sent.body)
            /\ {H_host, H_date, H_nonce, H_sha} \subseteq signedNames

(* C7, as stated: the canonical request is method, path, canonical query   *)
(* string, canonical header string, an empty line, signed header names and *)
(* payload hash, each followed by one newline.                             *)
C7_EachFieldNewline ==
    LET c == calls[1]
        nl(field) == field \o <<NL>>
    IN  c.signed =>
            c.canonicalRequest =
                nl(c.args.method) \o nl(c.args.uri) \o nl(c.canonicalQueryString)
                \o nl(c.canonicalHeaderString) \o nl(<<>>)
                \o nl(c.canonicalHeaderNameString) \o nl(c.payloadHashString)

(* C7, amended: the canonical request is method, path, canonical query     *)
(* string, canonical header string, an empty line, signed header names and *)
(* payload hash in this order, separated by single newlines, with no       *)
(* newline after the payload hash; an empty field keeps its place.         *)
C7_FieldsJoined ==
    LET c == calls[1]
    IN  c.signed =>
            c.canonicalRequest =
                Join(<<c.args.method, c.args.uri, c.canonicalQueryString,
                       c.canonicalHeaderString, <<>>, c.canonicalHeaderNameString,
                       c.payloadHashString>>, <<NL>>)

\* a request with an empty query mapping has been signed
C7_Witness ==
    /\ calls[1].signed /\ calls[1].args.query = <<>>
    /\ calls[1].canonicalQueryString = <<>> /\ calls[1].canonicalRequest # <<>>

(* C8: the canonical header string holds one name:value line for exactly   *)
(* the headers of the outgoing set whose lower-cased name is host or       *)
(* starts with x-acs-; names are lower-cased, values trimmed, lines sorted *)
(* by name in the order of the sort; the signed header names are the same  *)
(* names in the same order, joined by ";", and are the SignedHeaders of    *)
(* the Authorization value sent.                                           *)
C8_SignedHeadersExact ==
    LET c == calls[1]
        out == c.sent.headers
        ch == c.canonicalHeaders
        line(e) == e[1] \o <<":">> \o e[2]
        name(e) == e[1]
    IN  c.sent.dispatched =>
            /\ Len(ch) = Cardinality({i \in 1..Len(out) : Selected(out[i])})
            /\ \A i \in 1..Len(out) :
                    Selected(out[i]) =>
                        \E j \in 1..Len(ch) : ch[j] = <<toLowerCase(out[i][1]), trim(out[i][2])>>
            /\ \A j \in 1..Len(ch) :
                    /\ Range(ch[j][1]) \cap UpperCase = {}
                    /\ ch[j][1] = H_host \/ startsWith(ch[j][1], X_ACS)
                    /\ Trimmed(ch[j][2])
                    /\ \E i \in 1..Len(out) :
                            toLowerCase(out[i][1]) = ch[j][1] /\ trim(out[i][2]) = ch[j][2]
            /\ \A j \in 1..(Len(ch) - 1) : localeCompare(ch[j][1], ch[j + 1][1]) <= 0
            /\ c.canonicalHeaderString = Join(Map(line, ch), <<NL>>)
            /\ c.canonicalHeaderNameString = Join(Map(name, ch), <<";">>)
            /\ SignedHeadersOf(c.authorizationHeader) = c.canonicalHeaderNameString
            /\ \E i \in 1..Len(out) : out[i] = <<H_authorization, c.authorizationHeader>>

\* the caller passed a header to be signed under a name with upper-case
\* letters and one with white space around its value
C8_Witness ==
    LET c == calls[1]
    IN  /\ c.sent.dispatched
        /\ \E i \in 1..Len(c.args.headers) :
                /\ Selected(c.args.headers[i])
                /\ c.args.headers[i][1] # toLowerCase(c.args.headers[i][1])
        /\ \E i \in 1..Len(c.args.headers) :
                /\ Selected(c.args.headers[i])
                /\ c.args.headers[i][2] # trim(c.args.headers[i][2])
        /\ \E i \in 1..Len(c.sent.headers) : ~Selected(c.sent.headers[i])

(* C9: the canonical query string lists the entries in ascending code      *)
(* point order of their keys (an upper-case key before a lower-case one),  *)
(* each as percent-encoded key, "=", percent-encoded value, joined by "&"; *)
(* an empty value gives the key followed by "="; an empty mapping gives    *)
(* the empty string and a URL without "?".                                 *)
C9_QueryByCodePoint ==
    LET c == calls[1]
        pair(e) == encodeURIComponent(e[1]) \o <<"=">> \o encodeURIComponent(e[2])
    IN  c.sent.dispatched =>
            /\ \E q \in Perms(c.args.query) :
                    /\ \A i \in 1..(Len(q) - 1) : CodeCompare(q[i][1], q[i + 1][1]) < 0
                    /\ c.canonicalQueryString = Join(Map(pair, q), <<"&">>)
            /\ c.args.query = <<>> => c.canonicalQueryString = <<>>
            /\ c.sent.url = <<"https://">> \o endpoint \o c.args.uri
                            \o (IF c.args.query = <<>> THEN <<>> ELSE <<"?">>)
                            \o c.canonicalQueryString

(* C10: the x-acs-signature-nonce values of the requests of any two calls  *)
(* of assumeRole differ.                                                   *)
C10_NoncesDistinct ==
    \A i, j \in Calls :
        (i # j /\ calls[i].sent.dispatched /\ calls[j].sent.dispatched) =>
            WireValue(calls[i].sent.headers, H_nonce) # WireValue(calls[j].sent.headers, H_nonce)

=============================================================================
